---- MODULE Spec2Model ----
(***************************************************************************)
(* Behavioural model of the georisk-dashboard scoring pipeline:            *)
(*   - the coordinator (services/scheduler_service.py),                    *)
(*   - event ingest and its rate limiter (services/gdelt_service.py),      *)
(*   - the event processor (services/event_processing_service.py),         *)
(*   - the (country, date) stores of feature vectors and risk scores,      *)
(*   - indicator storage (services/worldbank_service.py).                  *)
(* Each subsystem has its own specification over the shared variables; a   *)
(* specification leaves the other subsystems' variables untouched.         *)
(***************************************************************************)
EXTENDS Integers, Sequences, FiniteSets, TLC

VARIABLES
    \* ---- coordinator (time in hours) ----
    clock,      \* wall clock, datetime.now()
    reg,        \* the shared register: last_run_key -> stored timestamp and expiry
    written,    \* last_run_at as last written (the register value, expiry aside)
    sched,      \* one record per scheduler process running run_scheduler
    manual,     \* the process serving run_manual_task
    faults,     \* failures injected so far
    lastCheck,  \* observation of the _should_run_task call just made, if any
    lastDone,   \* observation of the scheduled task run that just ended, if any
    lastManual, \* observation of the run_manual_task call that just returned, if any
    \* ---- events: ingest and processing ----
    raw,        \* table raw_events: row id = position
    processed,  \* table processed_events: committed rows per raw_event_id
    proc,       \* one record per session running process_raw_events
    seenRaw,    \* number of raw_events rows the last committed run could see
    lastRet,    \* observation of the process_raw_events call that just returned
    \* ---- stores keyed by (country, date) and indicator storage ----
    tables,     \* feature_vectors, risk_scores_v2, economic_indicators: rows per (key, value)
    writer,     \* one record per session inside a store call
    lastStored, \* per table and key, the value of the most recent successful store
    \* ---- rate limiter of the news-events API (time in tenths of a second) ----
    rclock,     \* wall clock, datetime.now().timestamp()
    rateKey,    \* the shared register key gdelt_api_calls: stored timestamp and expiry
    worker,     \* one record per worker inside collect_country_events
    upstream,   \* the times of the last two upstream calls
    \* ---- rate limiter of the indicators API (time in hundredths of a second) ----
    wclock,     \* wall clock, datetime.now().timestamp()
    wbKey,      \* the register keys wb_api_calls_wb_{indicator}_{country}
    collector,  \* the process inside collect_all_countries_indicators
    wbUpstream, \* the times of the last two upstream requests
    \* ---- feature builder ----
    featgen,    \* one generate-and-store of a feature vector: inputs, features, position
    \* ---- ensemble scorer (scores in thousandths, stored values in hundredths) ----
    scorer,     \* one predict-and-store of a risk score: model outputs, prediction, row
    \* ---- the per-country loops of the stages ----
    pipe,       \* feature and score rows, the models, and the stage run in progress
    \* ---- event processor: one event through the NLP steps ----
    nlp,        \* the title, what the sentiment analyzer does, and the processed row
    \* ---- event windows of the feature builder (dates as day numbers) ----
    win         \* one window: its length, the event dates, the events counted, the series

schedVars == <<clock, reg, written, sched, manual, lastCheck, lastDone, lastManual>>

eventVars == <<raw, processed, proc, seenRaw, lastRet>>

storeVars == <<tables, writer, lastStored>>

rateVars == <<rclock, rateKey, worker, upstream>>

wbVars == <<wclock, wbKey, collector, wbUpstream>>

featVars == <<featgen>>

scoreVars == <<scorer>>

pipeVars == <<pipe>>

nlpVars == <<nlp>>

winVars == <<win>>

vars == <<schedVars, faults, eventVars, storeVars, rateVars, wbVars, featVars, scoreVars,
         pipeVars, nlpVars, winVars>>

\* a step of one subsystem leaves the others as they are
OnlySched == UNCHANGED <<eventVars, storeVars, rateVars, wbVars, featVars,
                scoreVars, pipeVars, nlpVars, winVars>>

OnlyEvents == UNCHANGED <<schedVars, storeVars, rateVars, wbVars, featVars,
                scoreVars, pipeVars, nlpVars, winVars>>

OnlyStores == UNCHANGED <<schedVars, eventVars, rateVars, wbVars, featVars,
                scoreVars, pipeVars, nlpVars, winVars>>

OnlyRate == UNCHANGED <<schedVars, eventVars, storeVars, wbVars, featVars,
                scoreVars, pipeVars, nlpVars, winVars>>

OnlyWb == UNCHANGED <<schedVars, eventVars, storeVars, rateVars, featVars,
                scoreVars, pipeVars, nlpVars, winVars>>

OnlyFeatures ==
    UNCHANGED <<schedVars, faults, eventVars, storeVars, rateVars, wbVars,
                scoreVars, pipeVars, nlpVars, winVars>>

OnlyScores ==
    UNCHANGED <<schedVars, faults, eventVars, storeVars, rateVars, wbVars,
                featVars, pipeVars, nlpVars, winVars>>

OnlyPipe ==
    UNCHANGED <<schedVars, faults, eventVars, storeVars, rateVars, wbVars,
                featVars, scoreVars, nlpVars, winVars>>

OnlyNlp ==
    UNCHANGED <<schedVars, faults, eventVars, storeVars, rateVars, wbVars,
                featVars, scoreVars, pipeVars, winVars>>

OnlyWin ==
    UNCHANGED <<schedVars, faults, eventVars, storeVars, rateVars, wbVars,
                featVars, scoreVars, pipeVars, nlpVars>>

(***************************************************************************)
(* Coordinator: SchedulerService                                           *)
(***************************************************************************)

\* self.schedules with event processing listed before event ingest
TaskOrder_reordered ==
    << "event_processing", "gdelt_events", "worldbank_indicators",
       "feature_engineering", "risk_scoring", "model_retraining" >>

\* self.schedules, in the insertion order that the loop of run_scheduler follows
TaskOrder ==
    << "gdelt_events", "worldbank_indicators", "event_processing",
       "feature_engineering", "risk_scoring", "model_retraining" >>

Tasks == { TaskOrder[i] : i \in 1..Len(TaskOrder) }

\* self.schedules[task]["interval_hours"]
interval_hours ==
    [ gdelt_events |-> 6, worldbank_indicators |-> 168, event_processing |-> 1,
      feature_engineering |-> 24, risk_scoring |-> 24, model_retraining |-> 168 ]

\* ex=86400 * 7 of _update_last_run, in hours
LastRunTtlHours == 168

\* asyncio.sleep(3600) at the end of a tick, in hours
TickSleepHours == 1

Schedulers == { "s1" }

\* bounds of the coordinator model
StartTime == 168
Horizon == 1
MaxClock == StartTime + Horizon
MaxManual == 1
MaxFaults == 1

Absent == [ has |-> FALSE, at |-> 0, exp |-> 0 ]

\* the observations hold for one state: the step after the observed one clears them
NoCheck ==
    [ has |-> FALSE, task |-> TaskOrder[1], now |-> 0, readOk |-> TRUE,
      ran |-> FALSE, known |-> FALSE, at |-> 0 ]

NoDone ==
    [ has |-> FALSE, task |-> TaskOrder[1], outcome |-> "ok", stored |-> FALSE,
      tick_start |-> 0, before |-> [ has |-> FALSE, at |-> 0 ],
      after |-> [ has |-> FALSE, at |-> 0 ] ]

\* the observation of a run_manual_task call: the register before and after
NoManual ==
    [ has |-> FALSE, task |-> TaskOrder[1], outcome |-> "ok", stored |-> FALSE,
      status |-> "none", now |-> 0,
      before |-> [ t \in { TaskOrder[1] } |-> [ has |-> FALSE, at |-> 0 ] ],
      after |-> [ t \in { TaskOrder[1] } |-> [ has |-> FALSE, at |-> 0 ] ] ]

Unobserved == lastCheck' = NoCheck /\ lastDone' = NoDone /\ lastManual' = NoManual

\* redis GET of a last_run_key: an expired key reads as missing
RedisGet(t) ==
    IF reg[t].has /\ clock < reg[t].exp THEN reg[t] ELSE Absent

\* How a task body can end:
\*   ok             the stage ran to its end; for an ingest task, at least one
\*                  upstream call succeeded
\*   session_error  get_db(), or a query that the stage makes outside every
\*                  try block of its service (the select of the countries),
\*                  raised
\*   stage_error    the database failed inside the service call, where the
\*                  service catches it (rollback, return of a count, False,
\*                  {} or {"error": ...})
\*   upstream_error the upstream call of an ingest task failed for every
\*                  country (HTTP status, timeout, connection error)
Outcomes == { "ok", "session_error", "stage_error", "upstream_error" }

\* the tasks that call an upstream API
UpstreamTasks == { "gdelt_events", "worldbank_indicators" }

OutcomeApplies(t, outcome) == outcome = "upstream_error" => t \in UpstreamTasks

\* _run_task re-raises whatever the stage raises. The services catch what
\* fails inside them: collect_country_events and _fetch_indicator return [],
\* process_raw_events returns the count, generate_features_for_country returns
\* {}, store_features and store_predictions return False, the per-country loops
\* log and continue, train_models returns {"error": ...}, which
\* _run_model_retraining only logs. Only a failure outside those try blocks
\* reaches _run_task.
run_task_raises(t, outcome) == outcome = "session_error"

\* _should_run_task with `>` in place of `>=`
should_run_task_strict(t, readOk) ==
    IF ~readOk THEN FALSE
    ELSE IF ~RedisGet(t).has THEN TRUE
    ELSE clock - RedisGet(t).at > interval_hours[t]

\* _should_run_task: False when the register read raises, True when the key is
\* missing, else time_since_run >= interval
should_run_task(t, readOk) ==
    IF ~readOk THEN FALSE
    ELSE IF ~RedisGet(t).has THEN TRUE
    ELSE clock - RedisGet(t).at >= interval_hours[t]

\* _update_last_run: SET key run_time EX 1 week; a register error is swallowed
update_last_run(t, run_time, writeOk) ==
    IF writeOk
    THEN /\ reg' = [reg EXCEPT ![t] =
                      [ has |-> TRUE, at |-> run_time, exp |-> clock + LastRunTtlHours ]]
         /\ written' = [written EXCEPT ![t] = [ has |-> TRUE, at |-> run_time ]]
    ELSE UNCHANGED <<reg, written>>

\* a failure (a register error, a task that does not end ok) may be injected
\* while the budget lasts
FaultAllowed(ok) == ok \/ faults < MaxFaults

CountFault(ok) == faults' = IF ok THEN faults ELSE faults + 1

CurrentTask(p) == TaskOrder[sched[p].idx]

\* the for loop moves to the next task, or the tick ends in asyncio.sleep(3600)
NextInLoop(p) ==
    IF sched[p].idx < Len(TaskOrder)
    THEN [sched[p] EXCEPT !.pc = "check", !.idx = @ + 1]
    ELSE [sched[p] EXCEPT !.pc = "sleep", !.idx = 1,
                          !.wake = clock + TickSleepHours,
                          !.started = <<>>, !.ended = 0]

\* the task loop with an except branch that leaves the loop: the tick ends at
\* the first failing task
after_task_break(p, failed) ==
    IF failed
    THEN [sched[p] EXCEPT !.pc = "sleep", !.idx = 1,
                          !.wake = clock + TickSleepHours,
                          !.started = <<>>, !.ended = 0]
    ELSE NextInLoop(p)

\* the task loop after a task: a check that failed reads as not due, a task
\* that raised is logged and the except branch says `continue`, so the loop
\* goes on with the next task either way
after_task(p, failed) == NextInLoop(p)

\* run_scheduler: top of the while loop, current_time = datetime.now()
SchedTickStart(p) ==
    /\ sched[p].pc = "sleep"
    /\ clock >= sched[p].wake
    /\ sched' = [sched EXCEPT ![p] = [@ EXCEPT !.pc = "check", !.idx = 1,
                                                !.current_time = clock,
                                                !.started = <<>>, !.ended = 0]]
    /\ Unobserved
    /\ UNCHANGED <<clock, reg, written, manual, faults>>
    /\ OnlySched

\* run_scheduler: should_run = await self._should_run_task(...); a due task
\* enters _run_task at once
SchedCheck(p) ==
    /\ sched[p].pc = "check"
    /\ \E readOk \in BOOLEAN :
         /\ FaultAllowed(readOk)
         /\ CountFault(readOk)
         /\ LET t == CurrentTask(p)
                run == should_run_task(t, readOk)
            IN  /\ lastCheck' = [ has |-> TRUE, task |-> t, now |-> clock,
                                  readOk |-> readOk, ran |-> run,
                                  known |-> written[t].has, at |-> written[t].at ]
                /\ sched' = [sched EXCEPT ![p] =
                               IF run THEN [@ EXCEPT !.pc = "running",
                                                     !.started = Append(@, t)]
                               ELSE after_task(p, ~readOk)]
    /\ lastDone' = NoDone
    /\ lastManual' = NoManual
    /\ UNCHANGED <<clock, reg, written, manual>>
    /\ OnlySched

\* run_scheduler: _run_task returns or raises; on return
\* _update_last_run(last_run_key, current_time), on raise `continue`
SchedFinish(p) ==
    /\ sched[p].pc = "running"
    /\ \E outcome \in Outcomes, writeOk \in BOOLEAN :
         LET t == CurrentTask(p)
             raised == run_task_raises(t, outcome)
         IN  /\ OutcomeApplies(t, outcome)
             /\ outcome # "ok" => writeOk
             /\ FaultAllowed(outcome = "ok" /\ writeOk)
             /\ CountFault(outcome = "ok" /\ writeOk)
             /\ IF raised
                THEN UNCHANGED <<reg, written>>
                ELSE update_last_run(t, sched[p].current_time, writeOk)
             /\ lastDone' = [ has |-> TRUE, task |-> t, outcome |-> outcome,
                              stored |-> ~raised /\ writeOk,
                              tick_start |-> sched[p].current_time,
                              before |-> written[t], after |-> written'[t] ]
             /\ sched' = [sched EXCEPT ![p] =
                             IF after_task(p, raised).pc = "sleep"
                             THEN after_task(p, raised)
                             ELSE [after_task(p, raised) EXCEPT !.ended = @ + 1]]
    /\ lastCheck' = NoCheck
    /\ lastManual' = NoManual
    /\ UNCHANGED <<clock, manual>>
    /\ OnlySched

\* the task names that manual triggers are issued for: the first task of the
\* loop and the last, whose stage reports its failure without raising
ManualTasks == { "gdelt_events", "model_retraining" }

\* run_manual_task: entry, _run_task(task_name) starts
ManualStart(t) ==
    /\ manual.pc = "idle"
    /\ manual.runs < MaxManual
    /\ manual' = [manual EXCEPT !.pc = "running", !.task = t, !.runs = @ + 1]
    /\ Unobserved
    /\ UNCHANGED <<clock, reg, written, sched, faults>>
    /\ OnlySched

\* run_manual_task: _run_task returned (last run := datetime.now(), status
\* success) or raised (status error); the task_name argument ends with the call
ManualFinish ==
    /\ manual.pc = "running"
    /\ \E outcome \in Outcomes, writeOk \in BOOLEAN :
         LET raised == run_task_raises(manual.task, outcome)
         IN  /\ OutcomeApplies(manual.task, outcome)
             /\ outcome # "ok" => writeOk
             /\ FaultAllowed(outcome = "ok" /\ writeOk)
             /\ CountFault(outcome = "ok" /\ writeOk)
             /\ IF raised
                THEN UNCHANGED <<reg, written>>
                ELSE update_last_run(manual.task, clock, writeOk)
             /\ manual' = [manual EXCEPT !.pc = "idle", !.task = TaskOrder[1],
                              !.status = IF raised THEN "error" ELSE "success"]
             /\ lastManual' = [ has |-> TRUE, task |-> manual.task,
                                outcome |-> outcome,
                                stored |-> ~raised /\ writeOk,
                                status |-> IF raised THEN "error" ELSE "success",
                                now |-> clock,
                                before |-> written, after |-> written' ]
    /\ lastCheck' = NoCheck
    /\ lastDone' = NoDone
    /\ UNCHANGED <<clock, sched>>
    /\ OnlySched

InFlight(t) ==
    { p \in Schedulers : sched[p].pc = "running" /\ CurrentTask(p) = t }
      \cup (IF manual.pc = "running" /\ manual.task = t THEN { "manual" } ELSE {})

\* an hour passes, while a task runs or while the schedulers sleep (the register
\* calls of a tick take no time on this scale)
ClockTick ==
    /\ clock < MaxClock
    /\ \/ \E t \in Tasks : InFlight(t) # {}
       \/ \A p \in Schedulers : sched[p].pc = "sleep"
    /\ clock' = clock + 1
    /\ Unobserved
    /\ UNCHANGED <<reg, written, sched, manual, faults>>
    /\ OnlySched

(***************************************************************************)
(* Events: GDELTService._store_raw_events and EventProcessingService       *)
(***************************************************************************)

Countries == { "USA", "FRA" }

Urls == { "u1", "u2" }

\* the article at u2 has an empty or whitespace title, the one at u1 has text
TitleIsBlank(url) == url = "u2"

\* bounds of the events model
MaxRaw == 2
MaxBatch == 2

Sessions == { "scheduled", "manual" }

RawIds == 1..Len(raw)

\* the observation holds for one state: the next step clears it
NoRet ==
    [ has |-> FALSE, normal |-> FALSE, sel |-> {},
      before |-> [ i \in 1..MaxRaw |-> 0 ], overlap |-> FALSE, noNew |-> FALSE,
      start |-> {}, batch |-> 0 ]

\* the rows of one bulk insert, in the order of the upstream's article list
RECURSIVE ArticleRows(_, _)
ArticleRows(country, urls) ==
    IF urls = {} THEN <<>>
    ELSE LET u == CHOOSE x \in urls : \A y \in urls : x = "u1" \/ y # "u1"
         IN  <<[ country |-> country, source_url |-> u ]>>
               \o ArticleRows(country, urls \ {u})

\* _store_raw_events: every article of the response becomes a row of the bulk
\* insert; nothing looks at the rows already stored
store_raw_events(country, urls) == ArticleRows(country, urls)

\* collect_country_events for one country whose upstream call returned 200 with
\* the articles `urls`: insert(RawEvent), commit; an error rolls back
Ingest(country, urls) ==
    /\ Len(raw) + Cardinality(urls) <= MaxRaw
    /\ \E ok \in BOOLEAN :
         /\ FaultAllowed(ok)
         /\ CountFault(ok)
         /\ raw' = IF ok THEN raw \o store_raw_events(country, urls) ELSE raw
    /\ lastRet' = NoRet
    /\ UNCHANGED <<processed, proc, seenRaw>>
    /\ OnlyEvents

\* select(RawEvent).outerjoin(ProcessedEvent).where(ProcessedEvent.id.is_(None)):
\* the rows this session sees as unprocessed (committed rows only: the
\* session's own inserts are made after the select)
Unprocessed == { i \in RawIds : processed[i] = 0 }

\* query.limit(batch_size) has no ORDER BY: any batch_size of the rows
Chunks(batch_size) ==
    { c \in SUBSET Unprocessed :
        Cardinality(c) = IF Cardinality(Unprocessed) < batch_size
                         THEN Cardinality(Unprocessed) ELSE batch_size }

Active(r) == proc[r].pc = "selected"

\* process_raw_events up to the select; with no unprocessed row it returns 0
ProcSelect(r, batch_size) ==
    /\ proc[r].pc = "idle"
    /\ \E c \in Chunks(batch_size) :
         LET others == \E q \in Sessions \ {r} : Active(q)
         IN  IF c = {}
             THEN /\ lastRet' = [ has |-> TRUE, normal |-> TRUE, sel |-> {},
                                  before |-> processed, overlap |-> others,
                                  noNew |-> (Len(raw) = seenRaw),
                                  start |-> {}, batch |-> batch_size ]
                  /\ UNCHANGED <<proc, seenRaw>>
             ELSE /\ proc' = [ q \in Sessions |->
                                 IF q = r
                                 THEN [ pc |-> "selected", sel |-> c, overlap |-> others,
                                        noNew |-> (Len(raw) = seenRaw),
                                        rawSeen |-> Len(raw),
                                        start |-> Unprocessed, batch |-> batch_size ]
                                 ELSE [proc[q] EXCEPT !.overlap = @ \/ Active(q)] ]
                  /\ lastRet' = NoRet
                  /\ UNCHANGED seenRaw
    /\ UNCHANGED <<raw, processed, faults>>
    /\ OnlyEvents

\* _process_single_event: an empty or whitespace title returns at once, an
\* exception is logged and swallowed; otherwise one ProcessedEvent is inserted
process_single_event(i, failed) ==
    /\ ~TitleIsBlank(raw[i].source_url)
    /\ i \notin failed

\* process_raw_events from the gather to the commit and the normal return
ProcCommit(r) ==
    /\ Active(r)
    /\ \E failed \in SUBSET proc[r].sel :
         /\ Cardinality(failed) <= MaxFaults - faults
         /\ faults' = faults + Cardinality(failed)
         /\ processed' = [ i \in DOMAIN processed |->
                             IF i \in proc[r].sel /\ process_single_event(i, failed)
                             THEN processed[i] + 1 ELSE processed[i] ]
    /\ lastRet' = [ has |-> TRUE, normal |-> TRUE, sel |-> proc[r].sel,
                    before |-> processed, overlap |-> proc[r].overlap,
                    noNew |-> proc[r].noNew,
                    start |-> proc[r].start, batch |-> proc[r].batch ]
    /\ seenRaw' = proc[r].rawSeen
    /\ proc' = [proc EXCEPT ![r] = [@ EXCEPT !.pc = "idle", !.sel = {},
                                             !.overlap = FALSE, !.noNew = FALSE,
                                             !.rawSeen = 0, !.start = {}, !.batch = 0]]
    /\ UNCHANGED raw
    /\ OnlyEvents

\* process_raw_events: an exception outside the per-event handlers (the commit
\* fails): rollback, the count so far is returned
ProcAbort(r) ==
    /\ Active(r)
    /\ faults < MaxFaults
    /\ faults' = faults + 1
    /\ lastRet' = [ has |-> TRUE, normal |-> FALSE, sel |-> proc[r].sel,
                    before |-> processed, overlap |-> proc[r].overlap,
                    noNew |-> proc[r].noNew,
                    start |-> proc[r].start, batch |-> proc[r].batch ]
    /\ proc' = [proc EXCEPT ![r] = [@ EXCEPT !.pc = "idle", !.sel = {},
                                             !.overlap = FALSE, !.noNew = FALSE,
                                             !.rawSeen = 0, !.start = {}, !.batch = 0]]
    /\ UNCHANGED <<raw, processed, seenRaw>>
    /\ OnlyEvents

EventsIdle ==
    /\ raw = <<>>
    /\ processed = [ i \in 1..MaxRaw |-> 0 ]
    /\ proc = [ r \in Sessions |->
                  [ pc |-> "idle", sel |-> {}, overlap |-> FALSE, noNew |-> FALSE,
                    rawSeen |-> 0, start |-> {}, batch |-> 0 ] ]
    /\ seenRaw = 0
    /\ lastRet = NoRet

\* the raw_events table after ingest has stopped: any rows ingest can store
EventsStocked ==
    /\ raw \in UNION { [ 1..n -> [ country : Countries, source_url : Urls ] ] :
                         n \in 0..MaxRaw }
    /\ processed = [ i \in 1..MaxRaw |-> 0 ]
    /\ proc = [ r \in Sessions |->
                  [ pc |-> "idle", sel |-> {}, overlap |-> FALSE, noNew |-> FALSE,
                    rawSeen |-> 0, start |-> {}, batch |-> 0 ] ]
    /\ seenRaw = 0
    /\ lastRet = NoRet

\* processing runs with no further ingestion
NextProcessing ==
    \/ \E r \in Sessions, b \in 1..MaxBatch : ProcSelect(r, b)
    \/ \E r \in Sessions : ProcCommit(r)
    \/ \E r \in Sessions : ProcAbort(r)

\* the scheduler starts an event-processing run every hour and a run that has
\* selected its events goes on to its commit
FairProcessing ==
    /\ WF_vars(\E b \in 1..MaxBatch : ProcSelect("scheduled", b))
    /\ WF_vars(ProcCommit("scheduled"))

NextEvents ==
    \/ \E c \in Countries, urls \in (SUBSET Urls) \ {{}} : Ingest(c, urls)
    \/ \E r \in Sessions, b \in 1..MaxBatch : ProcSelect(r, b)
    \/ \E r \in Sessions : ProcCommit(r)
    \/ \E r \in Sessions : ProcAbort(r)

(***************************************************************************)
(* Stores: FeatureEngineeringService.store_features,                       *)
(* MLRiskScoringService.store_predictions,                                 *)
(* WorldBankService._store_indicator_data                                  *)
(***************************************************************************)

Dates == { "d1", "d2" }

\* natural keys of feature_vectors and risk_scores_v2: (country_id, date)
DateKeys == { "USA" } \X Dates

IndicatorCodes == { "PV.EST" }

Years == { "y1", "y2" }

\* natural keys of economic_indicators: (country_id, indicator_code, year)
IndicatorKeys == { "USA" } \X IndicatorCodes \X Years

\* stored payloads: a features map, a score row, an indicator value
Values == { "v1", "v2" }

TableNames == { "feature_vectors", "risk_scores_v2", "economic_indicators" }

KeysOf(tab) == IF tab = "economic_indicators" THEN IndicatorKeys ELSE DateKeys

Writers == { "scheduled", "manual" }

\* number of committed rows of a table with a key
Rows(tab, k) ==
    tables[tab][<<k, "v1">>] + tables[tab][<<k, "v2">>]

\* the records of one indicator response: year -> value, for some years
IndicatorData == UNION { [ ys -> Values ] : ys \in (SUBSET Years) \ {{}} }

InStore(w) == writer[w].pc = "checked"

\* a store call up to its existence check: select(<Table>.id).where(key)
\* sees the rows committed so far
StoreCheck(w, tab, data) ==
    /\ writer[w].pc = "idle"
    /\ writer' = [writer EXCEPT ![w] =
                    [ pc |-> "checked", tab |-> tab, data |-> data,
                      existing |-> { k \in DOMAIN data : Rows(tab, k) > 0 } ]]
    /\ UNCHANGED <<tables, lastStored, faults>>
    /\ OnlyStores

\* store_features(session, country_id, target_date, features), to the select
StoreFeaturesCheck(w, k, v) ==
    StoreCheck(w, "feature_vectors", [ x \in {k} |-> v ])

\* store_predictions(session, predictions), to the select
StorePredictionsCheck(w, k, v) ==
    StoreCheck(w, "risk_scores_v2", [ x \in {k} |-> v ])

\* _store_indicator_data(session, country_iso, indicator_code, indicator_data),
\* the selects of its record loop
StoreIndicatorCheck(w, code, recs) ==
    StoreCheck(w, "economic_indicators",
               [ k \in { <<"USA", code, y>> : y \in DOMAIN recs } |-> recs[k[3]] ])

\* the write the code makes from what its select saw: UPDATE ... WHERE key
\* (every row of the key takes the value) or INSERT of a new row
UpsertFromCheck(tab, data, existing) ==
    [ kv \in DOMAIN tables[tab] |->
        IF kv[1] \notin DOMAIN data THEN tables[tab][kv]
        ELSE IF kv[1] \in existing
             THEN (IF kv[2] = data[kv[1]] THEN Rows(tab, kv[1]) ELSE 0)
             ELSE tables[tab][kv] + (IF kv[2] = data[kv[1]] THEN 1 ELSE 0) ]

\* a store call from its update/insert to session.commit() and return True
StoreCommit(w) ==
    /\ InStore(w)
    /\ LET tab == writer[w].tab
           data == writer[w].data
       IN  /\ tables' = [tables EXCEPT ![tab] =
                           UpsertFromCheck(tab, data, writer[w].existing)]
           /\ lastStored' = [lastStored EXCEPT ![tab] =
                               [ k \in DOMAIN @ |->
                                   IF k \in DOMAIN data THEN data[k] ELSE @[k] ]]
    /\ writer' = [writer EXCEPT ![w] = [ pc |-> "idle" ]]
    /\ UNCHANGED faults
    /\ OnlyStores

\* a store call whose statement or commit raises: rollback, return False
StoreRollback(w) ==
    /\ InStore(w)
    /\ faults < MaxFaults
    /\ faults' = faults + 1
    /\ writer' = [writer EXCEPT ![w] = [ pc |-> "idle" ]]
    /\ UNCHANGED <<tables, lastStored>>
    /\ OnlyStores

StoresIdle ==
    /\ tables = [ tab \in TableNames |-> [ kv \in KeysOf(tab) \X Values |-> 0 ] ]
    /\ writer = [ w \in Writers |-> [ pc |-> "idle" ] ]
    /\ lastStored = [ tab \in TableNames |-> [ k \in KeysOf(tab) |-> "none" ] ]

NextStores ==
    \/ \E w \in Writers, k \in DateKeys, v \in Values : StoreFeaturesCheck(w, k, v)
    \/ \E w \in Writers, k \in DateKeys, v \in Values : StorePredictionsCheck(w, k, v)
    \/ \E w \in Writers : StoreCommit(w)
    \/ \E w \in Writers : StoreRollback(w)

NextIndicators ==
    \/ \E w \in Writers, c \in IndicatorCodes, recs \in IndicatorData :
          StoreIndicatorCheck(w, c, recs)
    \/ \E w \in Writers : StoreCommit(w)
    \/ \E w \in Writers : StoreRollback(w)

(***************************************************************************)
(* Rate limiter: GDELTService._enforce_rate_limit                          *)
(***************************************************************************)

\* self.rate_limit_delay = 86.4 seconds, in tenths of a second
RateLimitDelay == 864

\* ex=3600 on the SET of the rate-limit key, in tenths of a second
RateKeyTtl == 36000

RateWorkers == { "w1", "w2" }

\* the clock advances in steps of half the delay, MaxRateTicks times at most
MaxRateTicks == 4

RateTickStep == RateLimitDelay \div 2

MaxRateClock == MaxRateTicks * RateTickStep

NoKey == [ has |-> FALSE, at |-> 0, exp |-> 0 ]

\* redis_client.get(self.rate_limit_key): an expired key reads as None
RateGet == IF rateKey.has /\ rclock < rateKey.exp THEN rateKey ELSE NoKey

\* the upstream HTTP GET issued at the current time
UpstreamCall ==
    upstream' = [ n |-> IF upstream.n < 2 THEN upstream.n + 1 ELSE 2,
                  prev |-> upstream.last,
                  last |-> rclock ]

\* the time at which the sleep computed from last_call ends: no sleep when the
\* key is missing or the delay has elapsed
sleep_until(last_call) ==
    IF last_call.has /\ rclock - last_call.at < RateLimitDelay
    THEN last_call.at + RateLimitDelay
    ELSE rclock

\* collect_country_events enters _enforce_rate_limit: GET of the key, then the
\* sleep; a GET that raises falls back to a sleep of the full delay
RateEnter(w, readOk) ==
    /\ worker[w].pc = "idle"
    /\ FaultAllowed(readOk)
    /\ CountFault(readOk)
    /\ worker' = [worker EXCEPT ![w] =
                     IF readOk
                     THEN [ pc |-> "waiting", wake |-> sleep_until(RateGet) ]
                     ELSE [ pc |-> "fallback", wake |-> rclock + RateLimitDelay ]]
    /\ UNCHANGED <<rclock, rateKey, upstream>>
    /\ OnlyRate

\* the sleep is over: SET of the key to now with its expiry, then the upstream
\* call; a SET that raises falls back to a sleep of the full delay
RateProceed(w, writeOk) ==
    /\ worker[w].pc = "waiting"
    /\ rclock >= worker[w].wake
    /\ FaultAllowed(writeOk)
    /\ CountFault(writeOk)
    /\ IF writeOk
       THEN /\ rateKey' = [ has |-> TRUE, at |-> rclock, exp |-> rclock + RateKeyTtl ]
            /\ UpstreamCall
            /\ worker' = [worker EXCEPT ![w] = [ pc |-> "idle", wake |-> 0 ]]
       ELSE /\ worker' = [worker EXCEPT ![w] =
                            [ pc |-> "fallback", wake |-> rclock + RateLimitDelay ]]
            /\ UNCHANGED <<rateKey, upstream>>
    /\ UNCHANGED rclock
    /\ OnlyRate

\* the fallback sleep is over: the upstream call, the key left as it was
RateFallbackDone(w) ==
    /\ worker[w].pc = "fallback"
    /\ rclock >= worker[w].wake
    /\ UpstreamCall
    /\ worker' = [worker EXCEPT ![w] = [ pc |-> "idle", wake |-> 0 ]]
    /\ UNCHANGED <<rclock, rateKey, faults>>
    /\ OnlyRate

RateTick ==
    /\ rclock + RateTickStep <= MaxRateClock
    /\ rclock' = rclock + RateTickStep
    /\ UNCHANGED <<rateKey, worker, upstream, faults>>
    /\ OnlyRate

RateIdle ==
    /\ rclock = 0
    /\ rateKey = NoKey
    /\ worker = [ w \in RateWorkers |-> [ pc |-> "idle", wake |-> 0 ] ]
    /\ upstream = [ n |-> 0, prev |-> 0, last |-> 0 ]

NextRate ==
    \/ \E w \in RateWorkers, readOk \in BOOLEAN : RateEnter(w, readOk)
    \/ \E w \in RateWorkers, writeOk \in BOOLEAN : RateProceed(w, writeOk)
    \/ \E w \in RateWorkers : RateFallbackDone(w)
    \/ RateTick

(***************************************************************************)
(* Rate limiter of the indicators API: WorldBankService                    *)
(***************************************************************************)

\* self.rate_limit_delay = 8.64 seconds, in hundredths of a second
WbRateLimitDelay == 864

\* ex=3600 on the SET of a rate key, in hundredths of a second
WbKeyTtl == 360000

\* asyncio.sleep(1) between two countries, in hundredths of a second
WbCountryPause == 100

\* the first indicator codes of self.all_indicators, in insertion order
WbIndicators == << "PV.EST", "GE.EST" >>

\* the countries returned by the select of collect_all_countries_indicators
WbCountries == << "USA", "FRA" >>

\* key_suffix = wb_{indicator_code}_{country_iso}: one key per pair
WbKeySuffixes ==
    { <<WbIndicators[i], WbCountries[c]>> :
         i \in 1..Len(WbIndicators), c \in 1..Len(WbCountries) }

\* runs of collect_all_countries_indicators, and clock steps of half the delay
MaxWbRuns == 2
MaxWbTicks == 3

WbTickStep == WbRateLimitDelay \div 2

MaxWbClock == MaxWbTicks * WbTickStep

\* the key that the request in hand reads and writes
WbCurrentKey == <<WbIndicators[collector.i], WbCountries[collector.c]>>

\* redis_client.get(rate_key): an expired key reads as None
WbGet(k) == IF wbKey[k].has /\ wclock < wbKey[k].exp THEN wbKey[k] ELSE NoKey

\* the end of the sleep computed from last_call
wb_sleep_until(last_call) ==
    IF last_call.has /\ wclock - last_call.at < WbRateLimitDelay
    THEN last_call.at + WbRateLimitDelay
    ELSE wclock

\* _fetch_indicator: the upstream HTTP GET issued at the current time
WbUpstreamCall ==
    wbUpstream' = [ n |-> IF wbUpstream.n < 2 THEN wbUpstream.n + 1 ELSE 2,
                    prev |-> wbUpstream.last,
                    last |-> wclock ]

\* after a request: the next indicator of the country, or the pause that
\* follows the country's last indicator
WbAfterRequest ==
    IF collector.i < Len(WbIndicators)
    THEN [collector EXCEPT !.pc = "next", !.i = @ + 1, !.wake = 0]
    ELSE [collector EXCEPT !.pc = "pause", !.wake = wclock + WbCountryPause]

\* collect_country_indicators, next indicator: _enforce_rate_limit reads the
\* key of this (indicator, country); a GET that raises falls back to a sleep of
\* the full delay
WbEnter(readOk) ==
    /\ collector.pc = "next"
    /\ FaultAllowed(readOk)
    /\ CountFault(readOk)
    /\ collector' = IF readOk
                    THEN [collector EXCEPT !.pc = "waiting",
                                           !.wake = wb_sleep_until(WbGet(WbCurrentKey))]
                    ELSE [collector EXCEPT !.pc = "fallback",
                                           !.wake = wclock + WbRateLimitDelay]
    /\ UNCHANGED <<wclock, wbKey, wbUpstream>>
    /\ OnlyWb

\* the sleep is over: SET of the key, then _fetch_indicator; a SET that raises
\* falls back to a sleep of the full delay
WbProceed(writeOk) ==
    /\ collector.pc = "waiting"
    /\ wclock >= collector.wake
    /\ FaultAllowed(writeOk)
    /\ CountFault(writeOk)
    /\ IF writeOk
       THEN /\ wbKey' = [wbKey EXCEPT ![WbCurrentKey] =
                            [ has |-> TRUE, at |-> wclock, exp |-> wclock + WbKeyTtl ]]
            /\ WbUpstreamCall
            /\ collector' = WbAfterRequest
       ELSE /\ collector' = [collector EXCEPT !.pc = "fallback",
                                              !.wake = wclock + WbRateLimitDelay]
            /\ UNCHANGED <<wbKey, wbUpstream>>
    /\ UNCHANGED wclock
    /\ OnlyWb

\* the fallback sleep is over: _fetch_indicator, the keys left as they were
WbFallbackDone ==
    /\ collector.pc = "fallback"
    /\ wclock >= collector.wake
    /\ WbUpstreamCall
    /\ collector' = WbAfterRequest
    /\ UNCHANGED <<wclock, wbKey, faults>>
    /\ OnlyWb

\* the pause after a country is over: the next country, or the run returns
WbPauseDone ==
    /\ collector.pc = "pause"
    /\ wclock >= collector.wake
    /\ collector' = IF collector.c < Len(WbCountries)
                    THEN [collector EXCEPT !.pc = "next", !.c = @ + 1, !.i = 1, !.wake = 0]
                    ELSE [collector EXCEPT !.pc = "idle", !.c = 1, !.i = 1, !.wake = 0]
    /\ UNCHANGED <<wclock, wbKey, wbUpstream, faults>>
    /\ OnlyWb

\* collect_all_countries_indicators is called (scheduled task or manual run)
WbStartRun ==
    /\ collector.pc = "idle"
    /\ collector.runs < MaxWbRuns
    /\ collector' = [collector EXCEPT !.pc = "next", !.runs = @ + 1]
    /\ UNCHANGED <<wclock, wbKey, wbUpstream, faults>>
    /\ OnlyWb

WbTick ==
    /\ wclock + WbTickStep <= MaxWbClock
    /\ wclock' = wclock + WbTickStep
    /\ UNCHANGED <<wbKey, collector, wbUpstream, faults>>
    /\ OnlyWb

WbIdle ==
    /\ wclock = 0
    /\ wbKey = [ k \in WbKeySuffixes |-> NoKey ]
    /\ collector = [ pc |-> "idle", c |-> 1, i |-> 1, wake |-> 0, runs |-> 0 ]
    /\ wbUpstream = [ n |-> 0, prev |-> 0, last |-> 0 ]

NextWb ==
    \/ WbStartRun
    \/ \E readOk \in BOOLEAN : WbEnter(readOk)
    \/ \E writeOk \in BOOLEAN : WbProceed(writeOk)
    \/ WbFallbackDone
    \/ WbPauseDone
    \/ WbTick

(***************************************************************************)
(* Feature builder: FeatureEngineeringService                              *)
(***************************************************************************)

\* self.time_periods, in days
TimePeriods == { 7, 30, 90, 365 }

\* the names that _generate_event_features writes for each period
EventFeatureNames ==
    { "conflict_events", "protest_events", "diplomatic_events", "economic_events",
      "avg_sentiment", "sentiment_volatility", "event_trend", "severity_max" }

\* the feature names of the first two entries of self.economic_indicators
EconomicFeatureNames == { "political_stability", "government_effectiveness" }

NetworkFeatureNames == { "trade_dependence", "alliance_strength", "regional_instability" }

MetadataNames == { "feature_date", "country_id", "generated_at" }

\* what the query of one period finds: no row, some rows, or it raises
EventInputs == { "none", "some", "error" }

\* the rows of one indicator, or the query (latest, historical) that raises
IndicatorInputs ==
    { "no_rows", "one_row", "two_rows", "three_rows", "error_latest", "error_history" }

\* the country has no region, no recent regional score, a regional average, or
\* a query raises
NetworkInputs == { "no_region", "no_scores", "scores", "error" }

\* features.update(other): the keys of other are added or overwritten
Update(f, g) ==
    [ k \in DOMAIN f \cup DOMAIN g |-> IF k \in DOMAIN g THEN g[k] ELSE f[k] ]

Empty == [ k \in {} |-> "zero" ]

\* _generate_event_features for one period: the zero block when there are no
\* events or the query raised, the computed block otherwise
event_features(period, found) ==
    [ k \in EventFeatureNames \X { period } |->
        IF found = "some" THEN "computed" ELSE "zero" ]

\* _generate_economic_features for one indicator, without the defaults of the
\* branch taken when fewer than two historical rows exist
economic_features_sparse(name, rows) ==
    LET key(suffix) == << name, suffix >>
        defaults == [ k \in { name } \X { "latest", "yoy_change", "volatility", "trend" }
                        |-> "zero" ]
        latest == [ k \in { key("latest") } |-> "computed" ]
    IN  CASE rows = "no_rows" -> defaults
          [] rows = "error_latest" -> defaults
          [] rows = "error_history" -> Update(latest, defaults)
          [] rows = "one_row" -> latest
          [] rows = "two_rows" ->
                Update(latest,
                       [ k \in { name } \X { "yoy_change", "volatility", "trend" } |->
                           IF k[2] = "trend" THEN "zero" ELSE "computed" ])
          [] rows = "three_rows" ->
                Update(latest,
                       [ k \in { name } \X { "yoy_change", "volatility", "trend" } |->
                           "computed" ])

\* _generate_economic_features for one indicator: _latest from the newest row,
\* then yoy_change, volatility and trend from the historical rows (trend needs
\* three), 0.0 for what is missing; an exception overwrites all four with 0.0
economic_features(name, rows) ==
    LET key(suffix) == << name, suffix >>
        defaults == [ k \in { name } \X { "latest", "yoy_change", "volatility", "trend" }
                        |-> "zero" ]
        latest == [ k \in { key("latest") } |-> "computed" ]
    IN  CASE rows = "no_rows" -> defaults
          [] rows = "error_latest" -> defaults
          [] rows = "error_history" -> Update(latest, defaults)
          [] rows = "one_row" ->
                Update(latest,
                       [ k \in { name } \X { "yoy_change", "volatility", "trend" } |->
                           "zero" ])
          [] rows = "two_rows" ->
                Update(latest,
                       [ k \in { name } \X { "yoy_change", "volatility", "trend" } |->
                           IF k[2] = "trend" THEN "zero" ELSE "computed" ])
          [] rows = "three_rows" ->
                Update(latest,
                       [ k \in { name } \X { "yoy_change", "volatility", "trend" } |->
                           "computed" ])

\* _generate_network_features: the two placeholders, and the regional average
\* or its default of 50.0
network_features(found) ==
    [ k \in NetworkFeatureNames \X { "" } |->
        IF k[1] = "regional_instability"
        THEN (IF found = "scores" THEN "computed" ELSE "fifty")
        ELSE "half" ]

\* generate_features_for_country: the three families, then the metadata
generate_features_for_country(events, indicators, network) ==
    LET ev == [ k \in EventFeatureNames \X TimePeriods |->
                  event_features(k[2], events[k[2]])[k] ]
        ecKeys == UNION { DOMAIN economic_features(n, indicators[n]) :
                             n \in EconomicFeatureNames }
        ec == [ k \in ecKeys |-> economic_features(k[1], indicators[k[1]])[k] ]
        meta == [ k \in MetadataNames \X { "" } |-> "meta" ]
    IN  Update(Update(Update(ev, ec), network_features(network)), meta)

FeatureInputs ==
    [ events : [ TimePeriods -> EventInputs ],
      indicators : [ EconomicFeatureNames -> IndicatorInputs ],
      network : NetworkInputs ]

\* generate_and_store_features_for_all_countries, one country: the features
\* are generated
FeatGenerate ==
    /\ featgen.pc = "input"
    /\ featgen' = [featgen EXCEPT
                     !.pc = "generated",
                     !.features = generate_features_for_country(
                                     featgen.events, featgen.indicators,
                                     featgen.network)]
    /\ OnlyFeatures

\* `if features:` store_features writes them as the row's features map
FeatStore ==
    /\ featgen.pc = "generated"
    /\ featgen.features # Empty
    /\ featgen' = [featgen EXCEPT !.pc = "stored"]
    /\ OnlyFeatures

FeaturesIdle ==
    featgen = [ pc |-> "idle",
                events |-> [ p \in TimePeriods |-> "none" ],
                indicators |-> [ n \in EconomicFeatureNames |-> "no_rows" ],
                network |-> "no_region",
                features |-> Empty ]

FeaturesStart ==
    \E in \in FeatureInputs :
        featgen = [ pc |-> "input", events |-> in.events,
                    indicators |-> in.indicators, network |-> in.network,
                    features |-> Empty ]

NextFeatures == FeatGenerate \/ FeatStore

(***************************************************************************)
(* Ensemble scorer: MLRiskScoringService.predict_risk_scores               *)
(***************************************************************************)

\* Scores are fixed-point numbers. A model output, a component prediction and
\* a component interval endpoint are in thousandths of a point; a weight is in
\* hundredths; a value rounded to two decimals is in hundredths of a point.
\* Sums and products are exact: the floating-point error of the code's sums is
\* not modelled.

Components ==
    { "political_stability", "conflict_risk", "economic_risk", "institutional_quality" }

\* self.component_weights, in hundredths
component_weights ==
    [ political_stability |-> 25, conflict_risk |-> 30,
      economic_risk |-> 25, institutional_quality |-> 20 ]

\* 100.0 and the failure defaults 50.0, 40.0, 60.0, in thousandths
Hundred == 100000

FallbackComponent == [ pred |-> 50000, lower |-> 40000, upper |-> 60000 ]

Max(a, b) == IF a >= b THEN a ELSE b

Min(a, b) == IF a <= b THEN a ELSE b

\* round(x, 2) of a value given in units of 1/unit hundredths: to the nearest
\* hundredth, a tie to the even one
round2(x, unit) ==
    LET q == x \div unit
        r == x % unit
    IN  IF 2 * r > unit THEN q + 1
        ELSE IF 2 * r < unit THEN q
        ELSE IF q % 2 = 0 THEN q ELSE q + 1

\* _predict_component without the clamp of the prediction
predict_component_unclamped(rf_pred, xgb_pred, margin) ==
    LET ensemble_pred == (rf_pred + xgb_pred) \div 2
    IN  [ pred |-> ensemble_pred,
          lower |-> Max(0, ensemble_pred - margin),
          upper |-> Min(Hundred, ensemble_pred + margin) ]

\* _predict_component: the average of the two regressors, the interval
\* max(0, avg - 1.96 std) .. min(100, avg + 1.96 std) around the unclamped
\* average, then the prediction clamped to [0, 100]; margin is 1.96 std
predict_component(rf_pred, xgb_pred, margin) ==
    LET ensemble_pred == (rf_pred + xgb_pred) \div 2
    IN  [ pred |-> Max(0, Min(Hundred, ensemble_pred)),
          lower |-> Max(0, ensemble_pred - margin),
          upper |-> Min(Hundred, ensemble_pred + margin) ]

\* outputs of the random forest and of the boosted trees, and 1.96 std of the
\* forest's trees, in thousandths
RfOutputs == { 0, 100000 }

XgbOutputs == { -40000, 368, 140000 }

Margins == { 0, 1960 }

\* what one component's models do: they predict, or the call raises
ComponentInputs ==
    [ fails : { FALSE }, rf : RfOutputs, xgb : XgbOutputs, margin : Margins ]
        \cup { [ fails |-> TRUE, rf |-> 0, xgb |-> 0, margin |-> 0 ] }

\* the loop over the components without the except branch's defaults: a
\* failed component counts as 0 with the interval [0, 0]
component_result_zero(in) ==
    IF in.fails THEN [ pred |-> 0, lower |-> 0, upper |-> 0 ]
    ELSE predict_component(in.rf, in.xgb, in.margin)

\* the loop over the components: the prediction or the failure default
component_result(in) ==
    IF in.fails THEN FallbackComponent
    ELSE predict_component(in.rf, in.xgb, in.margin)

\* sum(value[component] * weight for ...), in units of 10^-5
WeightedSum(value) ==
    value["political_stability"] * component_weights["political_stability"]
      + value["conflict_risk"] * component_weights["conflict_risk"]
      + value["economic_risk"] * component_weights["economic_risk"]
      + value["institutional_quality"] * component_weights["institutional_quality"]

\* predict_risk_scores from the component loop to the returned dictionary
predict_risk_scores(inputs) ==
    LET res == [ c \in Components |-> component_result(inputs[c]) ]
    IN  [ overall_score |-> round2(WeightedSum([ c \in Components |-> res[c].pred ]), 1000),
          component_scores |-> [ c \in Components |-> round2(res[c].pred, 10) ],
          overall_lower |-> round2(WeightedSum([ c \in Components |-> res[c].lower ]), 1000),
          overall_upper |-> round2(WeightedSum([ c \in Components |-> res[c].upper ]), 1000),
          components |-> [ c \in Components |->
                             [ lower |-> res[c].lower, upper |-> res[c].upper ] ] ]

\* score_data of store_predictions: the columns of the risk_scores_v2 row
score_data(predictions) ==
    [ overall_score |-> predictions.overall_score,
      political_stability_score |-> predictions.component_scores["political_stability"],
      conflict_risk_score |-> predictions.component_scores["conflict_risk"],
      economic_risk_score |-> predictions.component_scores["economic_risk"],
      institutional_quality_score |-> predictions.component_scores["institutional_quality"],
      confidence_lower |-> predictions.overall_lower,
      confidence_upper |-> predictions.overall_upper ]

NoPrediction == predict_risk_scores([ c \in Components |->
                    [ fails |-> TRUE, rf |-> 0, xgb |-> 0, margin |-> 0 ] ])

\* _run_risk_scoring, one country: predict_risk_scores returns the prediction
ScorePredict ==
    /\ scorer.pc = "input"
    /\ scorer' = [scorer EXCEPT !.pc = "predicted",
                                !.predictions = predict_risk_scores(scorer.inputs)]
    /\ OnlyScores

\* _run_risk_scoring, one country: store_predictions writes the row
ScoreStore ==
    /\ scorer.pc = "predicted"
    /\ scorer' = [scorer EXCEPT !.pc = "stored",
                                !.row = score_data(scorer.predictions)]
    /\ OnlyScores

ScorerIdle ==
    scorer = [ pc |-> "idle",
               inputs |-> [ c \in Components |->
                              [ fails |-> TRUE, rf |-> 0, xgb |-> 0, margin |-> 0 ] ],
               predictions |-> NoPrediction,
               row |-> score_data(NoPrediction) ]

ScorerStart ==
    \E inputs \in [ Components -> ComponentInputs ] :
        scorer = [ pc |-> "input", inputs |-> inputs,
                   predictions |-> NoPrediction,
                   row |-> score_data(NoPrediction) ]

NextScores == ScorePredict \/ ScoreStore

\* The register outlives the scheduler process: at start a key is missing or
\* holds the stamp of an earlier run, here one that falls due an hour after
\* the start.
SchedStart ==
    /\ clock = StartTime
    /\ \E ran \in { {}, Tasks } :
         /\ reg = [ t \in Tasks |->
                      IF t \in ran
                      THEN [ has |-> TRUE,
                             at |-> StartTime + TickSleepHours - interval_hours[t],
                             exp |-> StartTime + TickSleepHours - interval_hours[t]
                                       + LastRunTtlHours ]
                      ELSE Absent ]
         /\ written = [ t \in Tasks |-> [ has |-> reg[t].has, at |-> reg[t].at ] ]
    /\ sched = [ p \in Schedulers |->
                   [ pc |-> "sleep", idx |-> 1, wake |-> StartTime,
                     current_time |-> StartTime,
                     started |-> <<>>, ended |-> 0 ] ]
    /\ manual = [ pc |-> "idle", task |-> TaskOrder[1], runs |-> 0, status |-> "none" ]
    /\ lastCheck = NoCheck
    /\ lastDone = NoDone
    /\ lastManual = NoManual

SchedIdle ==
    /\ clock = StartTime
    /\ reg = [ t \in Tasks |-> Absent ]
    /\ written = [ t \in Tasks |-> [ has |-> FALSE, at |-> 0 ] ]
    /\ sched = [ p \in Schedulers |->
                   [ pc |-> "sleep", idx |-> 1, wake |-> StartTime,
                     current_time |-> StartTime,
                     started |-> <<>>, ended |-> 0 ] ]
    /\ manual = [ pc |-> "idle", task |-> TaskOrder[1], runs |-> 0, status |-> "none" ]
    /\ lastCheck = NoCheck
    /\ lastDone = NoDone
    /\ lastManual = NoManual

NextSched ==
    \/ \E p \in Schedulers : SchedTickStart(p)
    \/ \E p \in Schedulers : SchedCheck(p)
    \/ \E p \in Schedulers : SchedFinish(p)
    \/ \E t \in ManualTasks : ManualStart(t)
    \/ ManualFinish
    \/ ClockTick


(***************************************************************************)
(* Stage runs: the per-country loops of ingest, features and scoring       *)
(***************************************************************************)

\* the stages that loop over the countries
BatchStages ==
    { "gdelt_events", "worldbank_indicators", "feature_engineering", "risk_scoring" }

\* the rows of the countries table, in the order the query returns them
PipeCountries == << "USA", "FRA" >>

PipeKeys == Countries \X Dates

MaxPipeRuns == 4

\* what the unit of work of one country can meet: an upstream error status, a
\* timeout, a failing store (rolled back), or an exception raised in the body
UnitOutcomes(stage) ==
    IF stage \in UpstreamTasks
    THEN { "ok", "upstream_error", "timeout", "storage_error", "exception" }
    ELSE { "ok", "stage_error", "storage_error", "exception" }

\* the artifact file /tmp/risk_models_{version}.pkl: missing, written with a
\* component left untrained, or written with every component trained
Artifacts == { "none", "partial", "full" }

NoPipeRet ==
    [ has |-> FALSE, stage |-> "gdelt_events", no_model |-> FALSE, raised |-> FALSE,
      looped |-> FALSE, attempted |-> <<>>, failed |-> {},
      before |-> [ k \in PipeKeys |-> 0 ], after |-> [ k \in PipeKeys |-> 0 ],
      date |-> "d1" ]

\* a for loop over the countries that stops at the first failing country
next_country_abort(i, outcome) ==
    IF outcome = "ok" THEN i + 1 ELSE Len(PipeCountries) + 1

\* the for loops over the countries: the unit of work returns its empty result
\* or the except branch logs, and the loop goes on with the next country
next_country(i, outcome) == i + 1

\* predict_risk_scores without the lookup of the feature vector
predict_returns_any(k, outcome) == outcome \in { "ok", "storage_error" }

\* predict_risk_scores returns predictions: None when no feature vector row
\* exists for (country, date) or when the prediction raises
predict_returns(k, outcome) ==
    k \in pipe.fv /\ outcome \in { "ok", "storage_error" }

\* the loop body of _run_risk_scoring: store_predictions is called with the
\* predictions, and the row is written unless the store fails
score_country(k, outcome) ==
    IF predict_returns(k, outcome) /\ outcome = "ok"
    THEN [pipe.rs EXCEPT ![k] = @ + 1]
    ELSE pipe.rs

\* the loop body of generate_and_store_features_for_all_countries: the
\* features are stored unless generation returned {} or the store fails
feature_country(k, outcome) ==
    IF outcome = "ok" THEN pipe.fv \cup { k } ELSE pipe.fv

\* _run_risk_scoring without the check of load_models' result
models_available_unchecked(loadOk) == TRUE

\* _run_risk_scoring: the models are in memory, or load_models reads the
\* artifact file
models_available(loadOk) ==
    pipe.trained \/ (pipe.artifact # "none" /\ loadOk)

\* the models in memory once _run_risk_scoring goes on: load_models fills
\* self.models with what the artifact holds
models_after_load ==
    IF pipe.trained THEN TRUE ELSE pipe.artifact = "full"

PipeReturned(stage, date, no_model, raised, looped, attempted, failed, before, after) ==
    [ has |-> TRUE, stage |-> stage, no_model |-> no_model, raised |-> raised,
      looped |-> looped, attempted |-> attempted, failed |-> failed,
      before |-> before, after |-> after, date |-> date ]

\* a stage starts: _run_risk_scoring returns at once without models; the query
\* of the countries raises to the caller when it fails; else the loop starts
PipeBegin(stage, selectOk, loadOk) ==
    /\ pipe.pc = "idle"
    /\ pipe.runs < MaxPipeRuns
    /\ LET scoring == stage = "risk_scoring"
           absent == ~pipe.trained /\ pipe.artifact = "none"
       IN  pipe' =
             IF scoring /\ ~models_available(loadOk)
             THEN [pipe EXCEPT !.runs = @ + 1,
                               !.ret = PipeReturned(stage, pipe.today, absent, FALSE, FALSE,
                                                    <<>>, {}, pipe.rs, pipe.rs)]
             ELSE IF ~selectOk
             THEN [pipe EXCEPT !.runs = @ + 1,
                               !.trained = IF scoring THEN models_after_load ELSE @,
                               !.ret = PipeReturned(stage, pipe.today, scoring /\ absent, TRUE,
                                                    FALSE, <<>>, {}, pipe.rs, pipe.rs)]
             ELSE [pipe EXCEPT !.pc = "loop", !.stage = stage, !.i = 1,
                               !.target_date = pipe.today,
                               !.no_model = scoring /\ absent,
                               !.before = pipe.rs,
                               !.trained = IF scoring THEN models_after_load ELSE @,
                               !.ret = NoPipeRet]
    /\ OnlyPipe

\* the unit of work of the next country, and the return after the last one
PipeCountry(outcome) ==
    /\ pipe.pc = "loop"
    /\ outcome \in UnitOutcomes(pipe.stage)
    /\ LET c == PipeCountries[pipe.i]
           k == <<c, pipe.target_date>>
           fv2 == IF pipe.stage = "feature_engineering"
                  THEN feature_country(k, outcome) ELSE pipe.fv
           rs2 == IF pipe.stage = "risk_scoring"
                  THEN score_country(k, outcome) ELSE pipe.rs
           j == next_country(pipe.i, outcome)
           att == Append(pipe.attempted, c)
           bad == IF outcome = "ok" THEN pipe.failed ELSE pipe.failed \cup { c }
       IN  pipe' =
             IF j <= Len(PipeCountries)
             THEN [pipe EXCEPT !.i = j, !.fv = fv2, !.rs = rs2,
                               !.attempted = att, !.failed = bad, !.ret = NoPipeRet]
             ELSE [pipe EXCEPT !.pc = "idle", !.stage = "gdelt_events", !.i = 1,
                               !.target_date = "d1", !.no_model = FALSE,
                               !.before = NoPipeRet.before,
                               !.attempted = <<>>, !.failed = {},
                               !.fv = fv2, !.rs = rs2, !.runs = @ + 1,
                               !.ret = PipeReturned(pipe.stage, pipe.target_date, pipe.no_model,
                                                    FALSE, TRUE, att, bad, pipe.before, rs2)]
    /\ OnlyPipe

TrainOutcomes == { "no_change", "component_error", "trained" }

\* _run_model_retraining: train_models returns an error before training, or
\* trains the components (one may fail and stay as it was) and saves the file
PipeTrain(outcome, saveOk) ==
    /\ pipe.pc = "idle"
    /\ pipe.runs < MaxPipeRuns
    /\ LET mem == pipe.trained \/ outcome = "trained"
       IN  pipe' = [pipe EXCEPT
                      !.runs = @ + 1,
                      !.trained = mem,
                      !.artifact = IF outcome = "no_change" \/ ~saveOk THEN @
                                   ELSE IF mem THEN "full" ELSE "partial",
                      !.ret = NoPipeRet]
    /\ OnlyPipe

\* the process restarts: the models in memory are gone, the file stays
PipeRestart ==
    /\ pipe.pc = "idle"
    /\ pipe.trained
    /\ pipe' = [pipe EXCEPT !.trained = FALSE, !.ret = NoPipeRet]
    /\ OnlyPipe

\* midnight passes: datetime.now().date() is the next date
PipeNewDay ==
    /\ pipe.today = "d1"
    /\ pipe' = [pipe EXCEPT !.today = "d2", !.ret = NoPipeRet]
    /\ OnlyPipe

PipeIdle ==
    pipe = [ pc |-> "idle", stage |-> "gdelt_events", i |-> 1, target_date |-> "d1",
             no_model |-> FALSE, before |-> NoPipeRet.before,
             attempted |-> <<>>, failed |-> {},
             fv |-> {}, rs |-> [ k \in PipeKeys |-> 0 ],
             trained |-> FALSE, artifact |-> "none", today |-> "d1", runs |-> 0,
             ret |-> NoPipeRet ]

NextPipe ==
    \/ \E stage \in BatchStages, selectOk \in BOOLEAN, loadOk \in BOOLEAN :
          PipeBegin(stage, selectOk, loadOk)
    \/ \E outcome \in UnitOutcomes("gdelt_events") \cup UnitOutcomes("risk_scoring") :
          PipeCountry(outcome)
    \/ \E outcome \in TrainOutcomes, saveOk \in BOOLEAN : PipeTrain(outcome, saveOk)
    \/ PipeRestart
    \/ PipeNewDay

(***************************************************************************)
(* Event processor: EventProcessingService._process_single_event           *)
(***************************************************************************)

\* A title is a sequence of lower-case words; the patterns ignore case.
\* Sentiment is in hundredths, severity and confidence are in thousandths
\* before rounding and in hundredths once rounded.

\* self.classification_patterns, in the order of the dictionary
classification_patterns ==
    << [ category |-> "conflict",
         words |-> { "attack", "violence", "fight", "battle", "war", "conflict",
                     "assault", "military", "bombing", "terrorism", "insurgency" } ],
       [ category |-> "protest",
         words |-> { "protest", "demonstration", "rally", "march", "strike", "riot",
                     "unrest", "civil" } ],
       [ category |-> "diplomatic",
         words |-> { "meeting", "summit", "negotiation", "treaty", "agreement", "talks",
                     "diplomatic", "embassy", "ambassador" } ],
       [ category |-> "economic",
         words |-> { "trade", "economic", "sanctions", "embargo", "tariff", "commerce",
                     "inflation", "gdp", "financial", "market" } ] >>

\* self.conflict_keywords
conflict_keywords == classification_patterns[1].words

\* the words titles are made of, with their length in characters
WordLen ==
    [ war |-> 3, warning |-> 7, protest |-> 7, summit |-> 6, diplomatic |-> 10,
      economic |-> 8, sanctions |-> 9, discussed |-> 9, at |-> 2, report |-> 6 ]

Vocabulary == DOMAIN WordLen

\* the conflict keywords that occur in a word as a substring
KeywordsIn(w) ==
    IF w \in { "war", "warning" } THEN { "war" } ELSE {}

MaxTitleWords == 2

LongTitle == << "economic", "sanctions", "discussed", "at", "diplomatic", "summit" >>

Titles ==
    UNION { [ 1..n -> Vocabulary ] : n \in 0..MaxTitleWords } \cup { LongTitle }

\* what TextBlob(title).sentiment.polarity gives: a polarity, or it raises
Polarities == { -50, 0, 80 }

SentimentOutcomes ==
    [ throws : { FALSE }, polarity : Polarities ]
        \cup { [ throws |-> TRUE, polarity |-> 0 ] }

RECURSIVE SumLen(_)
SumLen(title) ==
    IF title = <<>> THEN 0 ELSE WordLen[Head(title)] + SumLen(Tail(title))

\* len(title): the words and the spaces between them
CharLen(title) ==
    IF title = <<>> THEN 0 ELSE SumLen(title) + Len(title) - 1

\* pattern.search(title): a word of the title is one of the pattern's words
PatternMatches(p, title) ==
    \E i \in 1..Len(title) : title[i] \in classification_patterns[p].words

\* _classify_event: the category of the first pattern that matches, else other
classify_event(title) ==
    LET hits == { p \in 1..Len(classification_patterns) : PatternMatches(p, title) }
    IN  IF hits = {} THEN "other"
        ELSE classification_patterns[CHOOSE p \in hits : \A h \in hits : p <= h].category

\* _analyze_sentiment: the polarity, 0.0 when the analyzer raises
analyze_sentiment(outcome) ==
    IF outcome.throws THEN 0 ELSE outcome.polarity

\* _calculate_severity: 0.5 + 0.3 |min(0, sentiment)| + 0.1 per conflict
\* keyword found in the lower-cased title, clamped to [0, 1]
calculate_severity(title, sentiment_score) ==
    LET negative_sentiment_boost == 3 * (IF sentiment_score < 0 THEN -sentiment_score ELSE 0)
        found == UNION { KeywordsIn(title[i]) : i \in 1..Len(title) }
        conflict_boost == 100 * Cardinality(found \cap conflict_keywords)
    IN  Max(0, Min(1000, 500 + negative_sentiment_boost + conflict_boost))

\* _calculate_confidence: 0.7 + min(0.2, words / 50) + 0.1 for a category
\* other than other - 0.2 for a title under 20 characters, clamped to [0.1, 1]
calculate_confidence(title, risk_category) ==
    LET length_factor == Min(200, 20 * Len(title))
        category_factor == IF risk_category # "other" THEN 100 ELSE 0
        length_penalty == IF CharLen(title) < 20 THEN -200 ELSE 0
    IN  Max(100, Min(1000, 700 + length_factor + category_factor + length_penalty))

NoProcessedEvent ==
    [ risk_category |-> "other", sentiment_score |-> 0, severity_score |-> 0,
      confidence |-> 0 ]

\* _process_single_event up to the insert: the values of the processed row
processed_event(title, outcome) ==
    LET risk_category == classify_event(title)
        sentiment_score == analyze_sentiment(outcome)
    IN  [ risk_category |-> risk_category,
          sentiment_score |-> sentiment_score,
          severity_score |-> round2(calculate_severity(title, sentiment_score), 10),
          confidence |-> round2(calculate_confidence(title, risk_category), 10) ]

\* _process_single_event: a blank title is skipped, else the row is inserted
NlpProcess ==
    /\ nlp.pc = "input"
    /\ nlp' = IF nlp.title = <<>>
              THEN [nlp EXCEPT !.pc = "skipped"]
              ELSE [nlp EXCEPT !.pc = "stored",
                               !.row = processed_event(nlp.title, nlp.sentiment)]
    /\ OnlyNlp

NlpIdle ==
    nlp = [ pc |-> "idle", title |-> <<>>,
            sentiment |-> [ throws |-> TRUE, polarity |-> 0 ], row |-> NoProcessedEvent ]

NlpStart ==
    \E title \in Titles, outcome \in SentimentOutcomes :
        nlp = [ pc |-> "input", title |-> title, sentiment |-> outcome,
                row |-> NoProcessedEvent ]

NextNlp == NlpProcess

(***************************************************************************)
(* Event windows: FeatureEngineeringService._generate_event_features       *)
(***************************************************************************)

\* Dates are day numbers. The processed events of the country are given by
\* their event dates, at most one event a day.

\* target_date
TargetDay == 400

\* the event dates tried for a window: the target date, the day before, and
\* the days around the far end of the window
EventDays(period) ==
    { TargetDay - off : off \in { 0, 1, period - 1, period, period + 1 } }

\* start_date = target_date - timedelta(days=period)
start_date(target_date, period) == target_date - period

\* the where clause: event_date >= start_date and event_date <= target_date
events_in_period(events, target_date, period) ==
    { d \in events : d >= start_date(target_date, period) /\ d <= target_date }

\* _calculate_trend: the counts of the days from start_date to end_date, the
\* days without an event filled with 0; no series when there is no event
daily_series(daily_counts, start, end) ==
    IF daily_counts = {} THEN <<>>
    ELSE [ i \in 1..(end - start + 1) |->
             IF start + i - 1 \in daily_counts THEN 1 ELSE 0 ]

\* one window of _generate_event_features: the events selected and the series
\* handed to the linear fit
WinGenerate ==
    /\ win.pc = "input"
    /\ LET selected == events_in_period(win.events, TargetDay, win.period)
       IN  win' = [win EXCEPT
                     !.pc = "done",
                     !.counted = selected,
                     !.series = daily_series(selected,
                                             start_date(TargetDay, win.period),
                                             TargetDay)]
    /\ OnlyWin

WinIdle ==
    win = [ pc |-> "idle", period |-> 7, events |-> {}, counted |-> {}, series |-> <<>> ]

WinStart ==
    \E period \in TimePeriods :
        \E events \in SUBSET EventDays(period) :
            win = [ pc |-> "input", period |-> period, events |-> events,
                    counted |-> {}, series |-> <<>> ]

NextWin == WinGenerate

(***************************************************************************)
(* Specifications                                                          *)
(***************************************************************************)

InitSched == SchedStart /\ faults = 0 /\ EventsIdle /\ StoresIdle /\ RateIdle /\ WbIdle /\ FeaturesIdle /\ ScorerIdle /\ PipeIdle /\ NlpIdle /\ WinIdle

SpecSched == InitSched /\ [][NextSched]_vars

InitEvents == SchedIdle /\ faults = 0 /\ EventsIdle /\ StoresIdle /\ RateIdle /\ WbIdle /\ FeaturesIdle /\ ScorerIdle /\ PipeIdle /\ NlpIdle /\ WinIdle

SpecEvents == InitEvents /\ [][NextEvents]_vars

InitStores == SchedIdle /\ faults = 0 /\ EventsIdle /\ StoresIdle /\ RateIdle /\ WbIdle /\ FeaturesIdle /\ ScorerIdle /\ PipeIdle /\ NlpIdle /\ WinIdle

SpecStores == InitStores /\ [][NextStores]_vars

SpecIndicators == InitStores /\ [][NextIndicators]_vars

InitRate == SchedIdle /\ faults = 0 /\ EventsIdle /\ StoresIdle /\ RateIdle /\ WbIdle /\ FeaturesIdle /\ ScorerIdle /\ PipeIdle /\ NlpIdle /\ WinIdle

SpecRate == InitRate /\ [][NextRate]_vars

InitWb == SchedIdle /\ faults = 0 /\ EventsIdle /\ StoresIdle /\ RateIdle /\ WbIdle /\ FeaturesIdle /\ ScorerIdle /\ PipeIdle /\ NlpIdle /\ WinIdle

SpecWb == InitWb /\ [][NextWb]_vars

InitFeatures ==
    /\ SchedIdle /\ faults = 0 /\ EventsIdle /\ StoresIdle /\ RateIdle /\ WbIdle
    /\ FeaturesStart /\ ScorerIdle /\ PipeIdle /\ NlpIdle /\ WinIdle

SpecFeatures == InitFeatures /\ [][NextFeatures]_vars

InitScores ==
    /\ SchedIdle /\ faults = 0 /\ EventsIdle /\ StoresIdle /\ RateIdle /\ WbIdle
    /\ FeaturesIdle /\ ScorerStart /\ PipeIdle /\ NlpIdle /\ WinIdle

SpecScores == InitScores /\ [][NextScores]_vars

InitPipe == SchedIdle /\ faults = 0 /\ EventsIdle /\ StoresIdle /\ RateIdle /\ WbIdle /\ FeaturesIdle /\ ScorerIdle /\ PipeIdle /\ NlpIdle /\ WinIdle

SpecPipe == InitPipe /\ [][NextPipe]_vars

InitNlp == SchedIdle /\ faults = 0 /\ EventsIdle /\ StoresIdle /\ RateIdle /\ WbIdle /\ FeaturesIdle /\ ScorerIdle /\ PipeIdle /\ NlpStart /\ WinIdle

SpecNlp == InitNlp /\ [][NextNlp]_vars

InitWin == SchedIdle /\ faults = 0 /\ EventsIdle /\ StoresIdle /\ RateIdle /\ WbIdle /\ FeaturesIdle /\ ScorerIdle /\ PipeIdle /\ NlpIdle /\ WinStart

SpecWin == InitWin /\ [][NextWin]_vars

InitProcessing == SchedIdle /\ faults = 0 /\ EventsStocked /\ StoresIdle /\ RateIdle /\ WbIdle /\ FeaturesIdle /\ ScorerIdle /\ PipeIdle /\ NlpIdle /\ WinIdle

SpecProcessing == InitProcessing /\ [][NextProcessing]_vars /\ FairProcessing

Spec == SpecSched

(***************************************************************************)
(* Coordinator: claims                                                     *)
(***************************************************************************)

\* C1: two runs of the same named task are never in flight at the same time,
\* whether started by the scheduler loop or by a manual trigger.
NoSelfOverlap ==
    \A t \in Tasks : Cardinality(InFlight(t)) <= 1

\* C2: a scheduled run that succeeds (and whose register write is accepted)
\* leaves last_run_at at the tick-start time; a run that fails, by raising or
\* by failing inside its stage as a retraining without training data does,
\* leaves last_run_at as it was.
LastRunFollowsOutcome ==
    lastDone.has =>
        IF lastDone.outcome = "ok"
        THEN lastDone.stored =>
                lastDone.after = [ has |-> TRUE, at |-> lastDone.tick_start ]
        ELSE lastDone.after = lastDone.before

\* the schedule rule on the observed check: never run, or interval elapsed
Due(c) == ~c.known \/ c.now >= c.at + interval_hours[c.task]

\* C3 (as stated): on every check of a tick the task is executed iff it has
\* never run or now >= last_run_at + interval.
RunIffDue ==
    lastCheck.has => (lastCheck.ran <=> Due(lastCheck))

\* C3 (amended): when the register read succeeds the task is executed iff it
\* has never run or now >= last_run_at + interval; when the read raises the
\* task is not executed in that tick.
RunIffDueWhenRead ==
    lastCheck.has =>
        IF lastCheck.readOk
        THEN lastCheck.ran <=> Due(lastCheck)
        ELSE ~lastCheck.ran

\* C3 witness: a task with a stored stamp is checked exactly one interval
\* after it and is executed.
RunAtIntervalBoundary ==
    /\ lastCheck.has /\ lastCheck.readOk /\ lastCheck.known
    /\ lastCheck.now = lastCheck.at + interval_hours[lastCheck.task]
    /\ lastCheck.ran

\* C12: if in an event-ingest run the upstream call fails for every country,
\* the task's last_run_at is not advanced; if at least one country succeeds
\* (and the register write is accepted) it is advanced to the tick start.
IngestAdvancesIffSomeCountry ==
    (lastDone.has /\ lastDone.task = "gdelt_events") =>
        /\ lastDone.outcome = "upstream_error" => lastDone.after = lastDone.before
        /\ (lastDone.outcome = "ok" /\ lastDone.stored) =>
              lastDone.after = [ has |-> TRUE, at |-> lastDone.tick_start ]

\* the stages that work on the database only
DbStages == { "event_processing", "feature_engineering", "risk_scoring" }

\* C13: when the database is unavailable during event processing, feature
\* engineering or risk scoring, the stage aborts and the scheduler does not
\* advance that task's last_run_at.
DbFailureDoesNotAdvance ==
    ( /\ lastDone.has
      /\ lastDone.task \in DbStages
      /\ lastDone.outcome \in { "session_error", "stage_error" } )
        => lastDone.after = lastDone.before

\* C14: a manual trigger updates only the named task's last_run_at, and only
\* when the task succeeded (then to the time of the update, with status
\* success); when the task raises, every last_run_at entry is left unchanged
\* and an error status is returned.
ManualUpdatesNamedTaskOnSuccess ==
    lastManual.has =>
        /\ \A t \in Tasks \ { lastManual.task } :
              lastManual.after[t] = lastManual.before[t]
        /\ lastManual.outcome # "ok" => lastManual.after = lastManual.before
        /\ lastManual.outcome = "session_error" => lastManual.status = "error"
        /\ (lastManual.outcome = "ok" /\ lastManual.stored) =>
              /\ lastManual.after[lastManual.task] =
                    [ has |-> TRUE, at |-> lastManual.now ]
              /\ lastManual.status = "success"

\* the order the pipeline asks for: <<a, b>> means a runs before b
PipelineBefore ==
    { << "gdelt_events", "event_processing" >>,
      << "event_processing", "feature_engineering" >>,
      << "worldbank_indicators", "feature_engineering" >>,
      << "feature_engineering", "risk_scoring" >> }

\* C15: within one coordinator tick the due tasks run in pipeline order and
\* one after another: event ingest before event processing, event processing
\* and indicator ingest before feature engineering, feature engineering before
\* risk scoring; no stage starts before the earlier due stages of the tick
\* have finished.
PipelineOrderInTick ==
    \A p \in Schedulers :
        LET s == sched[p].started
        IN  /\ \A i, j \in 1..Len(s) :
                  << s[i], s[j] >> \in PipelineBefore => i < j
            /\ sched[p].ended =
                  IF sched[p].pc = "running" THEN Len(s) - 1 ELSE Len(s)

\* C15 witness: risk scoring runs in a tick in which the four stages before it
\* were due and have run
ScoringAfterFourStages ==
    \E p \in Schedulers :
        /\ sched[p].pc = "running"
        /\ CurrentTask(p) = "risk_scoring"
        /\ Len(sched[p].started) = 5
        /\ sched[p].ended = 4

\* C29: within a tick a task that raises, or whose schedule check fails on a
\* register error, does not stop the tick: the loop goes on to the next task
\* (a tick ends only after its last task has been dealt with), and the
\* failure leaves the register as it was, so that the failing task's
\* last_run_at not being advanced is its only effect.
TickSurvivesFailure ==
    [][ \A p \in Schedulers :
          /\ (sched[p].pc # "sleep" /\ sched'[p].pc = "sleep")
                => sched[p].idx = Len(TaskOrder)
          /\ (sched[p].pc # "sleep" /\ sched'[p].idx # sched[p].idx)
                => (sched'[p].idx = sched[p].idx + 1 /\ sched'[p].pc = "check")
                     \/ (sched'[p].idx = 1 /\ sched'[p].pc = "sleep")
          /\ ( \/ (lastCheck'.has /\ ~lastCheck'.readOk)
               \/ (lastDone'.has /\ run_task_raises(lastDone'.task, lastDone'.outcome)) )
                => (written' = written /\ reg' = reg)
      ]_vars

\* C29 witness: a scheduled task has just raised, its last_run_at is as it
\* was, and the loop is at the check of the next task of the same tick
NextTaskAfterRaise ==
    /\ lastDone.has /\ run_task_raises(lastDone.task, lastDone.outcome)
    /\ lastDone.after = lastDone.before
    /\ \E p \in Schedulers :
          /\ sched[p].pc = "check"
          /\ sched[p].idx > 1
          /\ TaskOrder[sched[p].idx - 1] = lastDone.task
          /\ sched[p].current_time = lastDone.tick_start

(***************************************************************************)
(* Events: claims                                                          *)
(***************************************************************************)

\* C4: after any sequence of ingest runs the raw_events table holds at most
\* one row per (country, source_url).
OneRowPerCountryUrl ==
    \A i \in RawIds, j \in RawIds :
        (raw[i].country = raw[j].country /\ raw[i].source_url = raw[j].source_url)
            => i = j

\* C5: in every reachable state there is at most one ProcessedEvent row per
\* RawEvent, also when two processing runs interleave.
AtMostOneProcessed ==
    \A i \in RawIds : processed[i] <= 1

\* C6: after a processing run that returns normally every RawEvent the run
\* selected has exactly one ProcessedEvent row, whatever its title and whether
\* or not its processing raised.
SelectedHaveExactlyOne ==
    (lastRet.has /\ lastRet.normal) =>
        \A i \in lastRet.sel : processed[i] = 1

\* C7: once a run has committed a ProcessedEvent, a later run that overlaps no
\* other run and finds no RawEvent that the earlier run could not see leaves
\* the set of ProcessedEvent rows as it was.
RerunChangesNothing ==
    ( /\ lastRet.has /\ lastRet.normal
      /\ ~lastRet.overlap /\ lastRet.noNew
      /\ \E i \in RawIds : lastRet.before[i] > 0 )
        => processed = lastRet.before

\* C27: a single event-processing run takes chunk after chunk until no
\* unprocessed RawEvent remains: when more RawEvents are unprocessed at the
\* start of a run than the chunk size, all of them are processed when the run
\* returns, not only the first chunk (stated for the events with a title
\* that the first chunk left out).
RunProcessesAllChunks ==
    ( /\ lastRet.has /\ lastRet.normal
      /\ Cardinality(lastRet.start) > lastRet.batch )
        => \A i \in lastRet.start \ lastRet.sel :
               ~TitleIsBlank(raw[i].source_url) => processed[i] >= 1

\* C28: under repeated event-processing runs with no further ingestion every
\* RawEvent with a non-blank title eventually has a ProcessedEvent, however
\* many RawEvents with a blank title exist, also when they are at least as
\* many as the chunk size.
TitledEventsEventuallyProcessed ==
    <>(\A i \in RawIds : ~TitleIsBlank(raw[i].source_url) => processed[i] >= 1)

(***************************************************************************)
(* Stores: claims                                                          *)
(***************************************************************************)

\* a key that has been stored has exactly one row, with the value of the most
\* recent successful store
OneRowWithLastValue(tab) ==
    \A k \in KeysOf(tab) :
        lastStored[tab][k] # "none" =>
            /\ Rows(tab, k) = 1
            /\ tables[tab][<<k, lastStored[tab][k]>>] = 1

\* C8: after any sequence or interleaving of store_features and
\* store_predictions calls, FeatureVector has exactly one row per (country,
\* feature_date) and RiskScore exactly one row per (country, score_date), with
\* the values of the most recent successful store.
OneRowPerCountryDate ==
    OneRowWithLastValue("feature_vectors") /\ OneRowWithLastValue("risk_scores_v2")

\* C9: after any sequence or interleaving of indicator ingests there is at most
\* one EconomicIndicator row per (country, indicator_code, year), holding the
\* value of the most recently committed ingest for that triple.
OneRowPerIndicatorYear ==
    \A k \in IndicatorKeys :
        /\ Rows("economic_indicators", k) <= 1
        /\ lastStored["economic_indicators"][k] # "none" =>
              tables["economic_indicators"][<<k, lastStored["economic_indicators"][k]>>] >= 1

(***************************************************************************)
(* Rate limiter: claims                                                    *)
(***************************************************************************)

\* C10: any two upstream calls to the news-events API are at least
\* RateLimitDelay (86.4 s) apart, also when several workers share the
\* rate-limit key: the read of the last-call timestamp, the wait and the
\* write-back act as one atomic step.
UpstreamCallsSpaced ==
    upstream.n >= 2 => upstream.last - upstream.prev >= RateLimitDelay

\* C11: any two consecutive upstream requests to the indicators API are at
\* least WbRateLimitDelay (8.64 s) apart, whichever indicator codes and
\* countries the two requests are for.
WbRequestsSpaced ==
    wbUpstream.n >= 2 => wbUpstream.last - wbUpstream.prev >= WbRateLimitDelay

(***************************************************************************)
(* Feature builder: claims                                                 *)
(***************************************************************************)

\* the feature vector of a country with events in every period, three rows
\* for every indicator and a regional average
ReferenceFeatures ==
    generate_features_for_country([ p \in TimePeriods |-> "some" ],
                                  [ n \in EconomicFeatureNames |-> "three_rows" ],
                                  "scores")

\* C16: every stored FeatureVector has the same set of feature keys, whatever
\* the input tables hold: a period without events, an indicator with no row or
\* one row, and a query error in any family all give the full key set, with
\* 0.0 (50.0 for the regional average) for the missing values.
SameFeatureKeys ==
    featgen.pc = "stored" =>
        /\ DOMAIN featgen.features = DOMAIN ReferenceFeatures
        /\ \A p \in TimePeriods : featgen.events[p] # "some" =>
              \A n \in EventFeatureNames : featgen.features[<< n, p >>] = "zero"
        /\ \A n \in EconomicFeatureNames :
              /\ featgen.indicators[n] \in { "no_rows", "error_latest", "error_history" } =>
                    \A x \in { "latest", "yoy_change", "volatility", "trend" } :
                        featgen.features[<< n, x >>] = "zero"
              /\ featgen.indicators[n] = "one_row" =>
                    \A x \in { "yoy_change", "volatility", "trend" } :
                        featgen.features[<< n, x >>] = "zero"
        /\ featgen.network # "scores" =>
              featgen.features[<< "regional_instability", "" >>] = "fifty"

\* C16 witness: a stored vector built from a period without events, a period
\* whose query raised, an indicator without rows, an indicator with one row
\* and a failed regional query
StoredFromMissingInputs ==
    /\ featgen.pc = "stored"
    /\ featgen.events[7] = "none" /\ featgen.events[30] = "error"
    /\ featgen.indicators["political_stability"] = "no_rows"
    /\ featgen.indicators["government_effectiveness"] = "one_row"
    /\ featgen.network = "error"

(***************************************************************************)
(* Ensemble scorer: claims                                                 *)
(***************************************************************************)

Predicted == scorer.pc \in { "predicted", "stored" }

\* the average of the two regressors of a component, in thousandths
RawAverage(c) == (scorer.inputs[c].rf + scorer.inputs[c].xgb) \div 2

\* C17: every component score and the overall score of a prediction is in
\* [0, 100], for any outputs of the two regressors (below 0 and above 100
\* included) and when a component falls back to its failure default.
ScoresInRange ==
    Predicted =>
        /\ scorer.predictions.overall_score \in 0..10000
        /\ \A c \in Components : scorer.predictions.component_scores[c] \in 0..10000

\* C17 witness: a prediction with one raw average above 100, one below 0 and
\* one component on its failure default
PredictedFromOutOfRange ==
    /\ Predicted
    /\ ~scorer.inputs["conflict_risk"].fails /\ RawAverage("conflict_risk") > Hundred
    /\ ~scorer.inputs["economic_risk"].fails /\ RawAverage("economic_risk") < 0
    /\ scorer.inputs["political_stability"].fails

\* C18: for every prediction overall_lower <= overall_score <= overall_upper,
\* for any regressor outputs and any per-tree standard deviation, an averaged
\* raw prediction outside [0, 100] included.
OverallWithinInterval ==
    Predicted =>
        /\ scorer.predictions.overall_lower <= scorer.predictions.overall_score
        /\ scorer.predictions.overall_score <= scorer.predictions.overall_upper

\* C19: both endpoints of every component interval and of the overall interval
\* are in [0, 100]: no lower bound above 100, no upper bound below 0.
IntervalsClamped ==
    Predicted =>
        /\ \A c \in Components :
              /\ scorer.predictions.components[c].lower \in 0..Hundred
              /\ scorer.predictions.components[c].upper \in 0..Hundred
        /\ scorer.predictions.overall_lower \in 0..10000
        /\ scorer.predictions.overall_upper \in 0..10000

\* the weighted sum of the stored two-decimal component scores, in units of
\* 10^-4
StoredSum ==
    WeightedSum([ c \in Components |->
                    CASE c = "political_stability" -> scorer.row.political_stability_score
                      [] c = "conflict_risk" -> scorer.row.conflict_risk_score
                      [] c = "economic_risk" -> scorer.row.economic_risk_score
                      [] c = "institutional_quality" ->
                           scorer.row.institutional_quality_score ])

\* C20: in every stored score row the overall score equals, to two decimals,
\* 0.30 conflict_risk + 0.25 political_stability + 0.25 economic_risk
\* + 0.20 institutional_quality of the stored two-decimal component scores
\* (a sum that lies exactly between two hundredths may go to either).
OverallIsSumOfStored ==
    scorer.pc = "stored" =>
        \/ scorer.row.overall_score = round2(StoredSum, 100)
        \/ /\ 2 * (StoredSum % 100) = 100
           /\ scorer.row.overall_score \in
                 { StoredSum \div 100, StoredSum \div 100 + 1 }

\* the value a component contributes to the overall score, in thousandths:
\* 50.0 when its prediction failed, else the clamped average of its regressors
Contribution(c) ==
    IF scorer.inputs[c].fails THEN 50000
    ELSE Max(0, Min(Hundred, RawAverage(c)))

\* C21: when the prediction of a component fails, that component's score is
\* 50.0 with the interval [40, 60], every other component keeps its predicted
\* value and interval, and the overall score and the overall interval are
\* still composed from the four components and returned.
FailedComponentGetsDefault ==
    Predicted =>
        /\ \A c \in Components :
              scorer.inputs[c].fails =>
                  /\ scorer.predictions.component_scores[c] = 5000
                  /\ scorer.predictions.components[c] = [ lower |-> 40000, upper |-> 60000 ]
        /\ \A c \in Components :
              ~scorer.inputs[c].fails =>
                  /\ scorer.predictions.component_scores[c] = round2(Contribution(c), 10)
                  /\ scorer.predictions.components[c] =
                        [ lower |-> Max(0, RawAverage(c) - scorer.inputs[c].margin),
                          upper |-> Min(Hundred, RawAverage(c) + scorer.inputs[c].margin) ]
        /\ scorer.predictions.overall_score =
              round2(WeightedSum([ c \in Components |-> Contribution(c) ]), 1000)
        /\ scorer.predictions.overall_lower =
              round2(WeightedSum([ c \in Components |->
                                     scorer.predictions.components[c].lower ]), 1000)
        /\ scorer.predictions.overall_upper =
              round2(WeightedSum([ c \in Components |->
                                     scorer.predictions.components[c].upper ]), 1000)

\* C21 witness: a prediction where exactly one component failed and the three
\* others were predicted, one of them away from the default
OneComponentFailed ==
    /\ Predicted
    /\ scorer.inputs["conflict_risk"].fails
    /\ \A c \in Components \ { "conflict_risk" } : ~scorer.inputs[c].fails
    /\ scorer.predictions.component_scores["economic_risk"] = 10000
    /\ scorer.predictions.overall_score # 5000

(***************************************************************************)
(* Stage runs: claims                                                      *)
(***************************************************************************)

EveryCountryAttempted ==
    /\ pipe.pc = "loop" =>
          pipe.attempted = SubSeq(PipeCountries, 1, pipe.i - 1)
    /\ pipe.ret.has /\ pipe.ret.looped =>
          /\ pipe.ret.attempted = PipeCountries
          /\ ~pipe.ret.raised

\* C26 witness: a feature-engineering run has returned after the unit of work
\* of its first country failed and the one of its last country succeeded
LaterCountryAfterFailure ==
    /\ pipe.ret.has /\ pipe.ret.looped
    /\ pipe.ret.stage = "feature_engineering"
    /\ pipe.ret.failed = { PipeCountries[1] }
    /\ <<PipeCountries[Len(PipeCountries)], pipe.ret.date>> \in pipe.fv

\* C30: every risk score row written by the scorer for (country, date) has a
\* feature vector row for the same (country, date); a scoring run for a date
\* for which no feature vector exists writes no row and changes no row.
ScoreRowsHaveFeatures ==
    /\ \A k \in PipeKeys : pipe.rs[k] > 0 => k \in pipe.fv
    /\ pipe.ret.has /\ pipe.ret.stage = "risk_scoring"
         /\ (\A c \in Countries : <<c, pipe.ret.date>> \notin pipe.fv) =>
            pipe.ret.after = pipe.ret.before

\* C30 witness: a scoring run with models has gone through the countries and
\* returned; the country with a feature vector for the date has a score row
\* and the country without one has none
ScoredOnlyWithFeatures ==
    /\ pipe.ret.has /\ pipe.ret.stage = "risk_scoring" /\ pipe.ret.looped
    /\ pipe.rs[<<"USA", pipe.ret.date>>] > 0
    /\ <<"FRA", pipe.ret.date>> \notin pipe.fv
    /\ "FRA" \notin pipe.ret.failed

(***************************************************************************)
(* Event processor: claims                                                 *)
(***************************************************************************)

\* C23: classification returns the category of the first pattern, in the
\* declared order, that matches the title, and other when none matches; the
\* title "Economic sanctions discussed at diplomatic summit", which matches
\* both the economic and the diplomatic pattern, is classified economic.
ClassifiedByFirstMatch ==
    nlp.pc = "stored" =>
        /\ LET hits == { p \in 1..Len(classification_patterns) :
                            PatternMatches(p, nlp.title) }
           IN  nlp.row.risk_category =
                 IF hits = {} THEN "other"
                 ELSE classification_patterns[
                          CHOOSE p \in hits : \A h \in hits : p <= h].category
        /\ nlp.title = LongTitle => nlp.row.risk_category = "economic"

\* C24: when the sentiment analyzer raises for an event, the stored row has
\* sentiment 0.0, the severity the formula gives for sentiment 0, and half the
\* confidence the formula gives for the title and its category.
AnalyzerFailureHalvesConfidence ==
    nlp.pc = "stored" /\ nlp.sentiment.throws =>
        /\ nlp.row.sentiment_score = 0
        /\ nlp.row.severity_score = round2(calculate_severity(nlp.title, 0), 10)
        /\ nlp.row.confidence =
              round2(calculate_confidence(nlp.title, nlp.row.risk_category) \div 2, 10)

(***************************************************************************)
(* Event windows: claims                                                   *)
(***************************************************************************)

\* C25: for each window w of 7, 30, 90 and 365 days the event features of
\* target_date are computed over exactly the w calendar days that end at
\* target_date, inclusive: an event dated target_date - w is not counted, and
\* the series of daily counts fitted for the trend has exactly w points.
WindowIsWDays ==
    win.pc = "done" =>
        /\ win.counted =
              { d \in win.events : d > TargetDay - win.period /\ d <= TargetDay }
        /\ win.counted # {} => Len(win.series) = win.period

====
